---- MODULE Spec2Model ----
(***************************************************************************)
(* Model of the parking reservation service (src/app.py): the blackout     *)
(* admission check, the reservation log written by concurrent POST         *)
(* /create-checkout-session requests, and the four GET endpoints.          *)
(***************************************************************************)
EXTENDS Integers, Sequences, FiniteSets, TLC

(* ------------------------------ bounds --------------------------------- *)
\* Window bounds are written "HH:00" with HH in 0..MaxHour.
MaxHour == 2
\* The wall clock is finer than the "HH:MM" strings of the configuration:
\* one configured hour is TicksPerHour clock ticks.
TicksPerHour == 2
\* Longest JSON list of windows that is enumerated.
MaxWindows == 2
\* Number of POST /create-checkout-session requests, all possibly in flight
\* at the same time.
NumReqs == 2

(* ----------------------- blackout configuration ------------------------ *)
\* A value found under "start"/"end" of a window object:
\*   none  - the key is missing
\*   bad   - not a string time.fromisoformat accepts
\*   hhmm  - "HH:00"
NoKey == [kind |-> "none", h |-> 0]
FieldValues ==
    {NoKey, [kind |-> "bad", h |-> 0]}
       \cup {[kind |-> "hhmm", h |-> h] : h \in 0..MaxHour}

\* An element of the JSON list: an object with "start"/"end", or any other
\* JSON value (dict = FALSE).
Elements ==
    {[dict |-> TRUE, start |-> s, end |-> e] : s \in FieldValues, e \in FieldValues}
       \cup {[dict |-> FALSE, start |-> NoKey, end |-> NoKey]}

SeqsUpTo(S, n) == UNION {[1..k -> S] : k \in 0..n}

\* The value of the environment variable BLACKOUT_WINDOWS:
\*   absent  - not set                 empty   - set to ""
\*   badjson - json.loads raises       scalar  - a JSON number/true/null
\*   object  - a non-empty JSON object (iteration yields its string keys)
\*   list    - a JSON list
RawOf(k, items) == [kind |-> k, items |-> items]
AllConfigs ==
    {RawOf(k, <<>>) : k \in {"absent", "empty", "badjson", "scalar", "object"}}
       \cup {RawOf("list", ws) : ws \in SeqsUpTo(Elements, MaxWindows)}

\* datetime.now().time(), in ticks since midnight
Times == 0..(MaxHour * TicksPerHour + 1)

\* time.fromisoformat on an "HH:00" string
fromisoformat(v) == v.h * TicksPerHour

\* start <= now <= end
InWindow_strict(s, now, e) == s <= now /\ now < e
InWindow(s, now, e) == s <= now /\ now <= e

\* The body of the try block for one window w: "deny" (return False),
\* "raise" (an exception, caught by the bare except), "next" (keep looping).
WindowStep(w, now) ==
    IF ~w.dict THEN "raise"                                \* w["start"] on a non-dict
    ELSE IF w.start.kind \in {"none", "bad"} THEN "raise"  \* KeyError / ValueError
    ELSE IF w.end.kind \in {"none", "bad"} THEN "raise"
    ELSE IF InWindow(fromisoformat(w.start), now, fromisoformat(w.end)) THEN "deny"
    ELSE "next"

RECURSIVE Scan(_, _, _)
Scan(ws, now, i) ==
    IF i > Len(ws) THEN "allow"
    ELSE LET o == WindowStep(ws[i], now) IN
         IF o = "next" THEN Scan(ws, now, i + 1) ELSE o

\* How booking_allowed() leaves: "unset" (line 50), "raise" (line 64),
\* "deny" (line 62), "allow" (line 66).
Outcome(raw, now) ==
    IF raw.kind \in {"absent", "empty"} THEN "unset"
    ELSE IF raw.kind \in {"badjson", "scalar", "object"} THEN "raise"
    ELSE Scan(raw.items, now, 1)

booking_allowed(raw, now) == Outcome(raw, now) # "deny"


(* ------------------------------- state --------------------------------- *)
VARIABLES
    probe,      \* a direct call of booking_allowed(): [called, raw, now, out]
    exists,     \* os.path.isfile(RESERVATION_FILE)
    log,        \* the lines of reservations.csv, in file order
    req,        \* req[r]: the r-th POST /create-checkout-session request
    exchange    \* the last GET request handled and its response

vars == <<probe, exists, log, req, exchange>>

Reqs == 1..NumReqs

ADMIN_USERNAME == "default_user"

\* request.form.get(k) is None when the field was not sent
None == "<None>"
CarModels == {"", "Honda Civic", "Ford F150"}
LicensePlates == {None, "ABC123"}

\* writer.writerow([car_model, license_plate, ...]) with the cells swapped
Row_swapped(car, plate, r) == [make |-> plate, plate |-> car, at |-> r]
\* One line of the CSV file. `at` stands for the "%Y-%m-%d %H:%M:%S" cell:
\* it is 0 in the header line and the number of the writing request in a
\* reservation row.
Header == [make |-> "Make", plate |-> "License Plate", at |-> 0]
Row(car, plate, r) == [make |-> car, plate |-> plate, at |-> r]

(* ------------------------- admin credentials --------------------------- *)
Usernames == {"default_user", "mallory"}
Passwords == {"default_password", "guess"}
PasswordCode == [p \in Passwords |-> IF p = "default_password" THEN 3 ELSE 5]

\* the salted digest stored in a werkzeug password hash
Digest(salt, password) == (PasswordCode[password] * 31 + salt) % 97
generate_password_hash(password, salt) ==
    [method |-> "pbkdf2:sha256", salt |-> salt, digest |-> Digest(salt, password)]
ADMIN_PASSWORD_HASH == generate_password_hash("default_password", 11)
check_password_hash(pwhash, password) == Digest(pwhash.salt, password) = pwhash.digest

\* request.authorization: absent, or a Basic username/password pair
NoAuth == [given |-> FALSE, username |-> "", password |-> "guess"]
Auths == {NoAuth} \cup
    {[given |-> TRUE, username |-> u, password |-> p] : u \in Usernames, p \in Passwords}

\* line 154: the credentials are rejected
Rejected_and(auth) ==
    auth.username # ADMIN_USERNAME /\ ~check_password_hash(ADMIN_PASSWORD_HASH, auth.password)
Rejected(auth) ==
    auth.username # ADMIN_USERNAME \/ ~check_password_hash(ADMIN_PASSWORD_HASH, auth.password)

(* ------------------------------- Init ---------------------------------- *)
NewReq ==
    [pc |-> "new", car_model |-> None, license_plate |-> None,
     admission |-> "unchecked", file_exists |-> FALSE, buf |-> <<>>,
     ioerror |-> FALSE, calls |-> 0, stripe |-> "none", status |-> 0, body |-> ""]

NoExchange ==
    [ep |-> "none", auth |-> NoAuth, status |-> 0, text |-> "",
     challenge |-> FALSE, attachment |-> FALSE, file |-> <<>>, error |-> FALSE]

NoProbe == [called |-> FALSE, raw |-> RawOf("absent", <<>>), now |-> 0, out |-> "unset"]

\* One blackout window "HH:00".."HH:00"
Window(s, e) ==
    [dict |-> TRUE, start |-> [kind |-> "hhmm", h |-> s], end |-> [kind |-> "hhmm", h |-> e]]

\* What a request may find in BLACKOUT_WINDOWS: nothing, a blackout over the
\* first hour, or text that is not JSON.
EnvConfigs ==
    {RawOf("absent", <<>>), RawOf("list", <<Window(0, 1)>>), RawOf("badjson", <<>>)}

\* The file is missing, empty, or holds the header and a row of an earlier run.
InitFile ==
    /\ exists \in BOOLEAN
    /\ log \in IF exists THEN {<<>>, <<Header, Row("Honda Civic", "ABC123", 0)>>}
                        ELSE {<<>>}
    /\ req = [r \in Reqs |-> NewReq]
    /\ exchange = NoExchange

Init ==
    /\ probe = NoProbe
    /\ InitFile

(* --------------------- POST /create-checkout-session ------------------- *)
\* line 90: not car_model or not license_plate
InvalidInput_car_only(car_model, license_plate) == car_model \in {None, ""}
InvalidInput(car_model, license_plate) ==
    car_model \in {None, ""} \/ license_plate \in {None, ""}

\* lines 82-91: the response that ends the request before the file is
\* touched, 0 when the request goes on
Gate_open(allowed, car_model, license_plate) ==
    IF InvalidInput(car_model, license_plate) THEN 400 ELSE 0
Gate_validate_first(allowed, car_model, license_plate) ==
    IF InvalidInput(car_model, license_plate) THEN 400
    ELSE IF ~allowed THEN 403
    ELSE 0
Gate(allowed, car_model, license_plate) ==
    IF ~allowed THEN 403
    ELSE IF InvalidInput(car_model, license_plate) THEN 400
    ELSE 0

GateBody(status) ==
    IF status = 403 THEN "Parking is unavailable at this time."
    ELSE "Invalid input. Please enter both the car model and license plate."

\* line 82: what booking_allowed() can answer a request, over the
\* configurations and the times of day it may be handled at
Admissions == {booking_allowed(raw, now) : raw \in EnvConfigs, now \in Times}

\* lines 82-94: admission, the form fields, validation and, for a request
\* that passes, os.path.isfile
Start(r) ==
    /\ req[r].pc = "new"
    /\ \E car \in CarModels, plate \in LicensePlates, allowed \in Admissions :
         LET st == Gate(allowed, car, plate)
         IN req' = [req EXCEPT ![r] =
                [@ EXCEPT !.car_model = car, !.license_plate = plate,
                          !.admission = IF allowed THEN "allowed" ELSE "denied",
                          !.pc = IF st = 0 THEN "open" ELSE "done",
                          !.file_exists = IF st = 0 THEN exists ELSE FALSE,
                          !.status = st,
                          !.body = IF st = 0 THEN "" ELSE GateBody(st)]]
    /\ UNCHANGED <<probe, exists, log, exchange>>

\* line 97: open(..., mode='a') creates a missing file; an OSError raised
\* here is not caught anywhere in the view and Flask answers 500.
Open(r) ==
    /\ req[r].pc = "open"
    /\ \E fails \in BOOLEAN :
         IF fails
         THEN /\ req' = [req EXCEPT ![r] =
                    [@ EXCEPT !.ioerror = TRUE, !.pc = "done", !.status = 500,
                              !.file_exists = FALSE,
                              !.body = "Internal Server Error"]]
              /\ UNCHANGED exists
         ELSE /\ req' = [req EXCEPT ![r] = [@ EXCEPT !.pc = "stat"]]
              /\ exists' = TRUE
    /\ UNCHANGED <<probe, log, exchange>>

\* line 101: not file_exists or os.stat(RESERVATION_FILE).st_size == 0
NeedHeader(file_exists, size) == ~file_exists \/ size = 0

\* lines 101-102: the header goes to the writer's buffer; file_exists is
\* not read again
Stat(r) ==
    /\ req[r].pc = "stat"
    /\ req' = [req EXCEPT ![r] =
           [@ EXCEPT !.buf = IF NeedHeader(req[r].file_exists, Len(log))
                             THEN <<Header>> ELSE <<>>,
                     !.file_exists = FALSE,
                     !.pc = "writerow"]]
    /\ UNCHANGED <<probe, exists, log, exchange>>

\* A write() on a descriptor opened with O_APPEND
FileWrite_truncating(file, lines) == lines
FileWrite(file, lines) == file \o lines

\* line 105: the row goes to the writer's buffer. A row longer than the
\* buffer makes the writer flush what it holds (the header) first and write
\* the row with a write() of its own.
WriteRow(r) ==
    /\ req[r].pc = "writerow"
    /\ LET row == Row(req[r].car_model, req[r].license_plate, r) IN
       \E long \in BOOLEAN :
         IF long
         THEN /\ log' = FileWrite(log, req[r].buf)
              /\ req' = [req EXCEPT ![r] = [@ EXCEPT !.buf = <<row>>, !.pc = "close"]]
         ELSE /\ log' = log
              /\ req' = [req EXCEPT ![r] =
                     [@ EXCEPT !.buf = req[r].buf \o <<row>>, !.pc = "close"]]
    /\ UNCHANGED <<probe, exists, exchange>>

\* line 97, leaving the with block: the buffer reaches the file
Close(r) ==
    /\ req[r].pc = "close"
    /\ log' = FileWrite(log, req[r].buf)
    /\ req' = [req EXCEPT ![r] = [@ EXCEPT !.buf = <<>>, !.pc = "checkout"]]
    /\ UNCHANGED <<probe, exists, exchange>>

\* lines 126, 129: the status of the response after Session.create
CheckoutStatus_always_redirect(created) == 303
CheckoutStatus(created) == IF created THEN 303 ELSE 200

\* lines 107-129
Checkout(r) ==
    /\ req[r].pc = "checkout"
    /\ \E created \in BOOLEAN :
         req' = [req EXCEPT ![r] =
            [@ EXCEPT !.calls = @ + 1, !.pc = "done",
                      !.stripe = IF created THEN "created" ELSE "failed",
                      !.status = CheckoutStatus(created),
                      !.body = IF created THEN "session.url" ELSE "str(e)"]]
    /\ UNCHANGED <<probe, exists, log, exchange>>

(* --------------------------- GET endpoints ----------------------------- *)
Page(ep, text) == [NoExchange EXCEPT !.ep = ep, !.status = 200, !.text = text]

\* lines 73-75
home ==
    /\ exchange' = Page("home", "index.html")
    /\ UNCHANGED <<probe, exists, log, req>>

\* lines 132-134
success ==
    /\ exchange' = Page("success", "success.html")
    /\ UNCHANGED <<probe, exists, log, req>>

\* lines 137-139
cancel ==
    /\ exchange' = Page("cancel", "Payment canceled!")
    /\ UNCHANGED <<probe, exists, log, req>>

Challenge(auth, text) ==
    [NoExchange EXCEPT !.ep = "admin", !.auth = auth, !.status = 401,
                       !.text = text, !.challenge = TRUE]

\* lines 160-163: send_file, or the text of the exception it raised
SendFile(auth, present, content) ==
    IF present
    THEN [NoExchange EXCEPT !.ep = "admin", !.auth = auth, !.status = 200,
                            !.attachment = TRUE, !.file = content]
    ELSE [NoExchange EXCEPT !.ep = "admin", !.auth = auth, !.status = 200,
                            !.text = "str(e)", !.error = TRUE]

\* lines 143-163
admin_view_reservations ==
    /\ \E auth \in Auths :
         exchange' =
            IF ~auth.given THEN Challenge(auth, "Login required")
            ELSE IF Rejected(auth) THEN Challenge(auth, "Could not verify login")
            ELSE SendFile(auth, exists, log)
    /\ UNCHANGED <<probe, exists, log, req>>

create_checkout_session(r) ==
    \/ Start(r)
    \/ Open(r)
    \/ Stat(r)
    \/ WriteRow(r)
    \/ Close(r)
    \/ Checkout(r)

Next ==
    \/ \E r \in Reqs : create_checkout_session(r)
    \/ home
    \/ success
    \/ cancel
    \/ admin_view_reservations

Spec == Init /\ [][Next]_vars

(* ------------------ booking_allowed() called directly ------------------ *)
InitAdm ==
    /\ probe \in {[NoProbe EXCEPT !.raw = raw] : raw \in AllConfigs}
    /\ exists = FALSE
    /\ log = <<>>
    /\ req = [r \in Reqs |-> NewReq]
    /\ exchange = NoExchange

\* lines 33-66, at the time of day `now`
Probe ==
    /\ \E now \in Times :
         probe' = [probe EXCEPT !.called = TRUE, !.now = now,
                                !.out = Outcome(probe.raw, now)]
    /\ UNCHANGED <<exists, log, req, exchange>>

NextAdm == Probe

SpecAdm == InitAdm /\ [][NextAdm]_vars


(* ------------------------------ properties ----------------------------- *)
Done(r) == req[r].pc = "done"
Handled(r) == req[r].pc # "new"
Blank(v) == v = None \/ v = ""
FieldsPresent(r) == ~Blank(req[r].car_model) /\ ~Blank(req[r].license_plate)
Quiescent == \A r \in Reqs : req[r].pc \in {"new", "done"}

\* the positions of the rows request r wrote, of the header lines
RowsOf(r) == {i \in 1..Len(log) : log[i].at = r}
Headers == {i \in 1..Len(log) : log[i] = Header}
\* the requests whose with block (lines 97-105) has been left normally
Written(r) == req[r].pc = "checkout" \/ (Done(r) /\ req[r].stripe # "none")

IsPrefix(a, b) == Len(a) <= Len(b) /\ SubSeq(b, 1, Len(a)) = a

\* every element is an object whose "start" and "end" are "HH:MM" strings
WellFormed(raw) ==
    /\ raw.kind = "list"
    /\ \A i \in 1..Len(raw.items) :
         /\ raw.items[i].dict
         /\ raw.items[i].start.kind = "hhmm"
         /\ raw.items[i].end.kind = "hhmm"

\* not JSON, not a list, or a list with an element that is no object, lacks
\* a key or carries a string that is no time
Malformed(raw) ==
    \/ raw.kind \in {"badjson", "scalar", "object"}
    \/ /\ raw.kind = "list"
       /\ \E i \in 1..Len(raw.items) :
            \/ ~raw.items[i].dict
            \/ raw.items[i].start.kind \in {"none", "bad"}
            \/ raw.items[i].end.kind \in {"none", "bad"}

\* window i of the configuration contains the time of day t
Covers(raw, i, t) ==
    /\ raw.items[i].start.h * TicksPerHour <= t
    /\ t <= raw.items[i].end.h * TicksPerHour

\* C1: with well-formed windows booking_allowed() returns False exactly when
\* some window has start <= now <= end (so an inverted window never denies
\* and a single-point window denies at that instant only), True otherwise.
C1_DeniedIffInsideAWindow ==
    (probe.called /\ WellFormed(probe.raw)) =>
        /\ probe.out \in {"deny", "allow"}
        /\ (probe.out = "deny") <=>
              (\E i \in 1..Len(probe.raw.items) : Covers(probe.raw, i, probe.now))
        /\ \A i \in 1..Len(probe.raw.items) :
              (probe.raw.items[i].start.h > probe.raw.items[i].end.h
                 /\ Len(probe.raw.items) = 1) => probe.out = "allow"

\* a single-point window, reached after an inverted one, denies at its instant
C1_Witness ==
    /\ probe.called /\ WellFormed(probe.raw) /\ probe.out = "deny"
    /\ Len(probe.raw.items) = 2
    /\ probe.raw.items[1].start.h > probe.raw.items[1].end.h
    /\ probe.raw.items[2].start.h = probe.raw.items[2].end.h
    /\ probe.now = probe.raw.items[2].start.h * TicksPerHour

\* C2: a malformed configuration (not JSON, not a list of windows, or a list
\* holding a malformed window anywhere) never makes booking_allowed() return
\* False, whatever the time of day.
C2_MalformedNeverDenies ==
    (probe.called /\ Malformed(probe.raw)) => probe.out # "deny"

\* C3: a request appends a row iff it was admitted and both fields were
\* non-empty (no I/O failure); a request with a blank field appends nothing
\* and is answered with a 4xx status.
C3_RowIffAdmittedAndPresent ==
    \A r \in Reqs :
        /\ RowsOf(r) # {} => (req[r].admission = "allowed" /\ FieldsPresent(r))
        /\ (Done(r) /\ ~req[r].ioerror /\ req[r].admission = "allowed" /\ FieldsPresent(r))
              => Cardinality(RowsOf(r)) = 1
        /\ (Done(r) /\ ~FieldsPresent(r))
              => (RowsOf(r) = {} /\ req[r].status \in 400..499)

C3_Witness ==
    \E r1, r2 \in Reqs :
        /\ Done(r1) /\ Cardinality(RowsOf(r1)) = 1
        /\ Done(r2) /\ req[r2].admission = "allowed" /\ req[r2].license_plate = None
        /\ req[r2].status = 400 /\ RowsOf(r2) = {}

\* C4: under every interleaving of concurrent submissions each submission
\* that has left its with block has exactly one row in the log, carrying its
\* car_model and license_plate; the other rows of the log are untouched and
\* no other line appears.
C4_OneIntactRowPerSubmission ==
    /\ \A r \in Reqs :
         /\ Cardinality(RowsOf(r)) = (IF Written(r) THEN 1 ELSE 0)
         /\ \A i \in RowsOf(r) :
              /\ log[i].make = req[r].car_model
              /\ log[i].plate = req[r].license_plate
    /\ \A i \in 1..Len(log) : log[i].at \in 0..NumReqs
    /\ Cardinality({i \in 1..Len(log) : log[i].at # 0})
          = Cardinality({r \in Reqs : Written(r)})

\* two submissions overlapped (each saw an empty file and wrote a header)
\* and both rows are in the log
C4_Witness ==
    /\ \E r1, r2 \in Reqs :
         /\ r1 # r2 /\ Done(r1) /\ Done(r2)
         /\ req[r1].car_model # req[r2].car_model
         /\ RowsOf(r1) # {} /\ RowsOf(r2) # {}
    /\ Cardinality(Headers) = 2

\* C5: GET /admin/reservations answers with the log's content when the
\* username is the admin's and the password verifies (the error text when
\* there is no file), with 401 and a Basic challenge and no content
\* otherwise, and never changes the log.
C5_AdminDisclosure ==
    [][(exchange' # exchange /\ exchange'.ep = "admin") =>
          /\ log' = log /\ exists' = exists
          /\ LET a == exchange'.auth IN
             IF /\ a.given
                /\ a.username = ADMIN_USERNAME
                /\ check_password_hash(ADMIN_PASSWORD_HASH, a.password)
             THEN /\ exchange'.status = 200
                  /\ exists => (exchange'.attachment /\ exchange'.file = log)
                  /\ ~exists => (~exchange'.attachment /\ exchange'.file = <<>>)
             ELSE /\ exchange'.status = 401
                  /\ exchange'.challenge
                  /\ ~exchange'.attachment
                  /\ exchange'.file = <<>>]_vars

C5_Witness ==
    /\ exchange.ep = "admin" /\ exchange.attachment
    /\ exchange.file = log /\ Len(log) >= 3

\* C6 as stated: a request with a blank field is answered 400 whether or
\* not a blackout is active, and booking_allowed() is reached only by
\* requests whose two fields are non-empty.
C6_ValidationBeforeAdmission ==
    \A r \in Reqs :
        /\ (Done(r) /\ ~FieldsPresent(r)) => req[r].status = 400
        /\ req[r].admission # "unchecked" => FieldsPresent(r)

\* C6 amended: booking_allowed() is evaluated first, for every request; a
\* denied request is answered 403 whatever its fields; a blank field is
\* answered 400 only when admission was allowed; the file is reached only by
\* admitted requests with both fields non-empty.
C6_AdmissionBeforeValidation ==
    \A r \in Reqs :
        Handled(r) =>
          /\ req[r].admission # "unchecked"
          /\ req[r].admission = "denied" => (Done(r) /\ req[r].status = 403)
          /\ (req[r].admission = "allowed" /\ ~FieldsPresent(r))
                => (Done(r) /\ req[r].status = 400)
          /\ req[r].status = 400 => (req[r].admission = "allowed" /\ ~FieldsPresent(r))
          /\ (~Done(r) \/ req[r].status \notin {400, 403})
                => (req[r].admission = "allowed" /\ FieldsPresent(r))

C6_Witness ==
    \E r1, r2 \in Reqs :
        /\ Done(r1) /\ ~FieldsPresent(r1) /\ req[r1].status = 403
        /\ Done(r2) /\ ~FieldsPresent(r2) /\ req[r2].status = 400

\* C7 as stated: a payment failure, an I/O failure while appending and an
\* unreadable log in the admin view are each answered with status 200 and
\* the text of the error; the payment call is not repeated.
C7_EveryFailureIs200 ==
    /\ \A r \in Reqs :
         /\ req[r].calls <= 1
         /\ (Done(r) /\ (req[r].stripe = "failed" \/ req[r].ioerror))
               => (req[r].status = 200 /\ req[r].body = "str(e)")
    /\ exchange.error => (exchange.status = 200 /\ exchange.text = "str(e)")

\* C7 amended: a payment failure and an unreadable log in the admin view are
\* answered with status 200 and the text of the error; an I/O failure while
\* appending is not caught and is answered 500 without the payment call;
\* nothing is retried.
C7_FailureResponses ==
    /\ \A r \in Reqs :
         /\ req[r].calls <= 1
         /\ (Done(r) /\ req[r].stripe = "failed")
               => (req[r].status = 200 /\ req[r].body = "str(e)" /\ req[r].calls = 1)
         /\ (Done(r) /\ req[r].ioerror)
               => (req[r].status = 500 /\ req[r].body # "str(e)" /\ req[r].calls = 0)
    /\ exchange.error =>
          (exchange.status = 200 /\ exchange.text = "str(e)" /\ ~exchange.attachment)

C7_Witness ==
    /\ \E r1, r2 \in Reqs :
         /\ Done(r1) /\ req[r1].stripe = "failed"
         /\ Done(r2) /\ req[r2].ioerror
    /\ exchange.error

\* C8: the log only grows at its end: its content in a state is a prefix of
\* its content in the next, the file is never removed, and a step of GET /,
\* /success, /cancel or /admin/reservations leaves the file as it is.
C8_AppendOnly ==
    [][/\ IsPrefix(log, log')
       /\ exists => exists'
       /\ exchange' # exchange => (log' = log /\ exists' = exists)]_vars

C8_Witness ==
    /\ Len(log) >= 4
    /\ \A r \in Reqs : RowsOf(r) # {}
    /\ exchange.ep = "cancel"

\* C9: once no submission is in flight the log holds the header exactly
\* once, as its first line, followed by one row per successful submission.
C9_HeaderOnceAndFirst ==
    (Quiescent /\ log # <<>>) =>
        /\ log[1] = Header
        /\ Headers = {1}
        /\ \A r \in Reqs : Cardinality(RowsOf(r)) = (IF Written(r) THEN 1 ELSE 0)

\* C10: the payment collaborator is called at most once per request and
\* only for an admitted request whose row is in the log, never for a request
\* answered 400 or 403; 303 is returned only when the session was created;
\* the row stays in the log when the session could not be created.
C10_CheckoutAfterAppend ==
    \A r \in Reqs :
        /\ req[r].calls <= 1
        /\ req[r].calls = (IF req[r].stripe = "none" THEN 0 ELSE 1)
        /\ (req[r].pc = "checkout" \/ req[r].calls = 1)
              => /\ req[r].admission = "allowed"
                 /\ FieldsPresent(r)
                 /\ Cardinality(RowsOf(r)) = 1
        /\ req[r].status \in {400, 403} => req[r].calls = 0
        /\ req[r].status = 303 => (req[r].stripe = "created" /\ Done(r))
        /\ (Done(r) /\ req[r].stripe = "failed")
              => (req[r].status = 200 /\ RowsOf(r) # {})

C10_Witness ==
    \E r1, r2 \in Reqs :
        /\ Done(r1) /\ req[r1].stripe = "failed" /\ RowsOf(r1) # {}
        /\ Done(r2) /\ req[r2].status = 303 /\ RowsOf(r2) # {}

====
